---- MODULE Spec2Model ----
(***************************************************************************)
(* Bullet-asteroid collision resolution of the Asteroids prototype:        *)
(* processBulletAsteroidCollisions (src/src/main.js), Asteroid and its     *)
(* breakup (src/src/asteroid.js) and circlesOverlap (collision.js).        *)
(*                                                                         *)
(* Objects live in two heaps keyed by identity; the input arrays and the   *)
(* result sets hold identities, as the JavaScript arrays and Sets hold     *)
(* references.  Positions are whole CSS pixels; velocities, angular        *)
(* velocities and shape offsets are fixed point, in thousandths.           *)
(* Math.random() is a stream ("tape") of numerators over RandDenom.        *)
(***************************************************************************)
EXTENDS Integers, Sequences, FiniteSets, TLC

VARIABLES
    bulletHeap,         \* bullet identity -> fields of the Bullet object
    asteroidHeap,       \* asteroid identity -> fields of the Asteroid object
    bullets,            \* the `bullets` argument: array of bullet identities
    asteroids,          \* the `asteroids` argument: array of asteroid identities
    bulletsToRemove,    \* Set of bullet identities
    asteroidsToRemove,  \* Set of asteroid identities
    newAsteroids,       \* array of the children's identities
    scoreDelta,
    asteroidCount,      \* asteroids.length captured before the loops
    bi,                 \* number of elements the for-of over bullets has yielded
    i,                  \* index of the inner for loop
    pc,                 \* "bullets": at the head of the outer loop,
                        \* "scan": in the inner loop, "done": returned
    entry,              \* the arguments and both heaps as they were at call time
    hits,               \* the breakup invocations of this call, in order
    prev,               \* what the previous call on the same arguments returned
    applied,            \* what applyCollisionResults returned and the arrays it saw
    probe,              \* a function under direct call: its arguments and results
    game,               \* engine/game-loop.js: module and startLoop closure state,
                        \* the pending animation-frame callbacks, the last frame
    dom,                \* window, the canvas element and the state of canvas.js
    fpsCounter,         \* fpsCounter.js: module state and the last call's result
    ticks               \* a caller that resolves and applies tick after tick:
                        \* its score and what its ticks have done so far

vars == <<bulletHeap, asteroidHeap, bullets, asteroids, bulletsToRemove,
          asteroidsToRemove, newAsteroids, scoreDelta, asteroidCount, bi, i,
          pc, entry, hits, prev, applied, probe, game, dom, fpsCounter, ticks>>

----------------------------------------------------------------------------
(* Bounds of the model *)

\* largest population a run of ticks starts with
MaxPopulation == 1

\* most bullets of one tick
MaxShots == 2

\* longest bullets array
MaxBullets == 2

\* longest asteroids array
MaxAsteroids == 2

\* number of random streams a breakup may draw from
NumTapes == 2

\* number of times breakup is called on one asteroid
MaxCalls == 2

\* largest tier, in halves, a constructor call is given
MaxTierHalves == 8

\* largest coordinate of the centre of a circle under circlesOverlap
MaxCoord == 4

\* largest radius of a circle under circlesOverlap
MaxCircleRadius == 3

\* number of animation frames delivered to the game loop
MaxFrames == 4

\* number of updateFPS calls
MaxUpdates == 32

\* number of times the frame rate changes between two updateFPS calls
MaxSwitches == 1

----------------------------------------------------------------------------
(* Program constants *)

\* the score table read with the tiers in the opposite order
AsteroidScoresReversed == [t \in 1..3 |-> CASE t = 1 -> 100 [] t = 2 -> 50 [] t = 3 -> 20]

ASTEROID_SCORES == [t \in 1..3 |-> CASE t = 1 -> 20 [] t = 2 -> 50 [] t = 3 -> 100]

\* radii that shrink by 10 px a tier
TierRadiiLinear == [t \in 1..3 |-> 50 - 10 * t]

TIER_RADII == [t \in 1..3 |-> CASE t = 1 -> 40 [] t = 2 -> 20 [] t = 3 -> 10]

SHAPE_VERTEX_COUNT == 10

\* SHAPE_JITTER = 0.3, in thousandths
SHAPE_JITTER == 300

\* radians per second, in thousandths
MIN_ANGULAR_VELOCITY == -2000

MAX_ANGULAR_VELOCITY == 2000

BULLET_RADIUS == 3

\* Math.random() returns n / RandDenom for a numerator n in 0..RandDenom-1,
\* a value of [0, 1)
RandDenom == 4

\* number of Math.random() calls of one `new Asteroid` without
\* angularVelocity and shape: one for the spin, one per vertex
DrawsPerAsteroid == 1 + SHAPE_VERTEX_COUNT

\* number of Math.random() calls per child in breakup: offsetX, offsetY,
\* the deflection angle, speedScale, then the constructor's
DrawsPerChild == 4 + DrawsPerAsteroid

----------------------------------------------------------------------------
(* Trigonometry, in ten-thousandths *)

\* Math.cos / Math.sin at the multiples of 36 degrees (angleStep = 2*PI/10)
CosStep(k) ==
    CASE k = 0 -> 10000 [] k = 1 -> 8090 [] k = 2 -> 3090 [] k = 3 -> -3090
      [] k = 4 -> -8090 [] k = 5 -> -10000 [] k = 6 -> -8090 [] k = 7 -> -3090
      [] k = 8 -> 3090 [] k = 9 -> 8090

SinStep(k) ==
    CASE k = 0 -> 0 [] k = 1 -> 5878 [] k = 2 -> 9511 [] k = 3 -> 9511
      [] k = 4 -> 5878 [] k = 5 -> 0 [] k = 6 -> -5878 [] k = 7 -> -9511
      [] k = 8 -> -9511 [] k = 9 -> -5878

\* Math.cos / Math.sin of an angle given in hundredths of a degree, at the
\* angles randomDeflectionAngle can return with RandDenom = 4
CosDeg(a) ==
    CASE a = -3000 -> 8660 [] a = -2250 -> 9239 [] a = 1500 -> 9659
      [] a = 2250 -> 9239

SinDeg(a) ==
    CASE a = -3000 -> -5000 [] a = -2250 -> -3827 [] a = 1500 -> 2588
      [] a = 2250 -> 3827

----------------------------------------------------------------------------
(* collision.js *)

\* circlesOverlap with < in place of <=
circlesOverlapStrict(a, b) ==
    LET dx == a.x - b.x
        dy == a.y - b.y
        radiiSum == a.radius + b.radius
    IN  dx * dx + dy * dy < radiiSum * radiiSum

\* circlesOverlap with the first radius taken twice
circlesOverlapOwnRadius(a, b) ==
    LET dx == a.x - b.x
        dy == a.y - b.y
        radiiSum == a.radius + a.radius
    IN  dx * dx + dy * dy <= radiiSum * radiiSum

\* a test of the bounding boxes: each axis on its own
circlesOverlapBoxes(a, b) ==
    LET dx == a.x - b.x
        dy == a.y - b.y
        radiiSum == a.radius + b.radius
    IN  dx * dx <= radiiSum * radiiSum /\ dy * dy <= radiiSum * radiiSum

circlesOverlap(a, b) ==
    LET dx == a.x - b.x
        dy == a.y - b.y
        distSq == dx * dx + dy * dy
        radiiSum == a.radius + b.radius
    IN  distSq <= radiiSum * radiiSum

----------------------------------------------------------------------------
(* asteroid.js *)

\* vertex offsets in thousandths of a pixel; rnd[k+1] is the draw of vertex k
generateAsteroidShape(radius, rnd) ==
    [k \in 1..SHAPE_VERTEX_COUNT |->
        LET jitter == (1000 - SHAPE_JITTER) + (rnd[k] * (SHAPE_JITTER * 2)) \div RandDenom
            r == radius * jitter
        IN  [x |-> (CosStep(k - 1) * r) \div 10000,
             y |-> (SinStep(k - 1) * r) \div 10000]]

randomAngularVelocity(n) ==
    MIN_ANGULAR_VELOCITY
      + (n * (MAX_ANGULAR_VELOCITY - MIN_ANGULAR_VELOCITY)) \div RandDenom

\* one band for every draw: t - 15
DeflectionOfUnsplit(t) == t - 1500

\* the two branches of randomDeflectionAngle for t = Math.random() * 30,
\* t and the angle in hundredths of a degree
DeflectionOf(t) == IF t < 1500 THEN -3000 + t ELSE 1500 + (t - 1500)

\* the deflection angle in hundredths of a degree
randomDeflectionAngle(n) == DeflectionOf((n * 3000) \div RandDenom)

RangeError == [error |-> "RangeError"]

\* new Asteroid({tier, x, y, vx, vy}): rotation, angularVelocity and shape
\* are not passed; rnd holds the DrawsPerAsteroid draws the constructor makes
Asteroid(tier, x, y, vx, vy, rnd) ==
    IF tier < 1 \/ tier > 3
    THEN RangeError
    ELSE [tier |-> tier,
          radius |-> TIER_RADII[tier],
          x |-> x, y |-> y, vx |-> vx, vy |-> vy,
          rotation |-> 0,
          angularVelocity |-> randomAngularVelocity(rnd[1]),
          shape |-> generateAsteroidShape(TIER_RADII[tier],
                                          SubSeq(rnd, 2, DrawsPerAsteroid))]

\* an offset of up to half the radius
ChildOffsetHalfRadius(n, radius) ==
    ((n * 2 - RandDenom) * radius * 5) \div (RandDenom * 10)

\* (Math.random() * 2 - 1) * this.radius * 0.3, in whole pixels
ChildOffset(n, radius) ==
    ((n * 2 - RandDenom) * radius * 3) \div (RandDenom * 10)

\* a scale drawn from [1.2, 1.7)
SpeedScaleWide(n) == 1200 + (n * 500) \div RandDenom

\* 1.2 + Math.random() * 0.3, in thousandths
SpeedScale(n) == 1200 + (n * 300) \div RandDenom

\* the JavaScript values undefined and NaN
Undefined == "undefined"

NaN == "NaN"

\* new Asteroid({tier, x, y, vx, vy}) for a tier that is any JavaScript number
\* of halves, tierHalves / 2: a whole tier is constructed as above; a tier
\* between two whole ones fails neither comparison of the guard unless it is
\* below 1 or above 3, and TIER_RADII has no such key
NewAsteroid(tierHalves, x, y, vx, vy, rnd) ==
    IF tierHalves % 2 = 0
    THEN Asteroid(tierHalves \div 2, x, y, vx, vy, rnd)
    ELSE IF tierHalves < 2 * 1 \/ tierHalves > 2 * 3
    THEN RangeError
    ELSE [tier |-> <<tierHalves, 2>>,
          radius |-> Undefined,
          x |-> x, y |-> y, vx |-> vx, vy |-> vy,
          rotation |-> 0,
          angularVelocity |-> randomAngularVelocity(rnd[1]),
          shape |-> [k \in 1..SHAPE_VERTEX_COUNT |-> [x |-> NaN, y |-> NaN]]]

\* one iteration of the loop of breakup; rnd holds its DrawsPerChild draws
BreakupChild(this, rnd) ==
    LET offsetX == ChildOffset(rnd[1], this.radius)
        offsetY == ChildOffset(rnd[2], this.radius)
        angleDeg == randomDeflectionAngle(rnd[3])
        speedScale == SpeedScale(rnd[4])
        cos == CosDeg(angleDeg)
        sin == SinDeg(angleDeg)
        childVx == (((this.vx * cos - this.vy * sin) \div 10000) * speedScale) \div 1000
        childVy == (((this.vx * sin + this.vy * cos) \div 10000) * speedScale) \div 1000
    IN  Asteroid(this.tier + 1, this.x + offsetX, this.y + offsetY,
                 childVx, childVy, SubSeq(rnd, 5, DrawsPerChild))

\* the test for the smallest tier taken as this.tier >= 2
BreakupChildCountEarly(this) == IF this.tier >= 2 THEN 0 ELSE 2

\* a breakup without the test for the smallest tier
BreakupChildCountAlways(this) == 2

\* what this.tier === 3 decides: the number of children
BreakupChildCount(this) == IF this.tier = 3 THEN 0 ELSE 2

\* asteroid.breakup(); tape holds the draws of Math.random() in call order
Breakup(this, tape) ==
    [children |-> [c \in 1..BreakupChildCount(this) |->
                     BreakupChild(this, SubSeq(tape, (c - 1) * DrawsPerChild + 1,
                                               c * DrawsPerChild))],
     score |-> ASTEROID_SCORES[this.tier]]

----------------------------------------------------------------------------
(* Inputs *)

\* positions of the input bullets.  With a bullet radius of 3, (100,123) is
\* tangent to a tier-2 asteroid at (100,100), inside a tier-1 asteroid there
\* and out of reach of a tier-3 one; of the children of a tier-1 asteroid at
\* (100,100) it reaches some and not others, depending on their offsets
BulletPoints == {<<100, 100>>, <<100, 123>>}

\* positions of the input asteroids: a bullet at (100,123) is tangent to a
\* tier-2 asteroid at (100,146) too, and a bullet at (100,100) is out of
\* reach of any asteroid there
AsteroidPoints == {<<100, 100>>, <<100, 146>>}

\* the k-th random stream: numerators in 0..RandDenom-1
Tape(k) ==
    [j \in 1..(2 * DrawsPerChild) |-> (2 * k * j + 2 * j + (j \div 2) + k + 1) % RandDenom]

Tapes == {Tape(k) : k \in 1..NumTapes}

\* new Bullet({x, y, vx, vy})
Bullet(x, y, vx, vy) == [x |-> x, y |-> y, vx |-> vx, vy |-> vy, radius |-> BULLET_RADIUS]

\* arrays of length n over identities 1..m in which every identity occurs and
\* first occurrences are in increasing order (one array per aliasing pattern)
Arrays(n, m) ==
    {s \in [1..n -> 1..m] :
        /\ \A id \in 1..m : \E k \in 1..n : s[k] = id
        /\ \A k \in 1..n : \A id \in 1..(s[k] - 1) : \E l \in 1..(k - 1) : s[l] = id}

\* velocity given to an input asteroid of a tier, in thousandths of px/s
InputVelocity(tier) ==
    CASE tier = 1 -> <<10000, 5000>>
      [] tier = 2 -> <<-15000, 20000>>
      [] tier = 3 -> <<5000, -10000>>

InputBullets == {Bullet(p[1], p[2], 0, -300000) : p \in BulletPoints}

InputAsteroids ==
    {Asteroid(t, p[1], p[2], InputVelocity(t)[1], InputVelocity(t)[2],
              SubSeq(Tape(1), 1, DrawsPerAsteroid)) : t \in 1..3, p \in AsteroidPoints}

----------------------------------------------------------------------------
(* main.js: processBulletAsteroidCollisions *)

\* the fields of a record r overridden by those of a record u
Assign(r, u) == [f \in DOMAIN r |-> IF f \in DOMAIN u THEN u[f] ELSE r[f]]

\* applyCollisionResults has not been called
NotApplied == [called |-> FALSE]

\* no function is under direct call
NoProbe == [fn |-> "none"]

\* a module that has not been imported
NotLoaded == [loaded |-> FALSE]

\* neither the engine nor the FPS counter is loaded, and there is no page
NoEngine ==
    /\ game = NotLoaded
    /\ dom = NotLoaded
    /\ fpsCounter = NotLoaded

\* the state of a call at its first statement of the outer loop: the sets
\* and the array are empty, scoreDelta is 0, asteroids.length is captured
EnterCall(bs, as, bh, ah, pr) ==
    /\ bullets = bs
    /\ asteroids = as
    /\ bulletHeap = bh
    /\ asteroidHeap = ah
    /\ bulletsToRemove = {}
    /\ asteroidsToRemove = {}
    /\ newAsteroids = <<>>
    /\ scoreDelta = 0
    /\ asteroidCount = Len(as)
    /\ bi = 0
    /\ i = 0
    /\ pc = "bullets"
    /\ entry = [bullets |-> bs, asteroids |-> as, bulletHeap |-> bh, asteroidHeap |-> ah]
    /\ hits = <<>>
    /\ prev = pr
    /\ applied = NotApplied
    /\ probe = NoProbe
    /\ NoEngine

NoResult == [called |-> FALSE]

Init ==
    /\ ticks = NotLoaded
    /\ \E n \in 0..MaxBullets, m \in 0..MaxAsteroids :
         \E nb \in 0..n :
           \E bs \in Arrays(n, nb), as \in Arrays(m, m) :
             \E bh \in [1..nb -> InputBullets], ah \in [1..m -> InputAsteroids] :
               EnterCall(bs, as, bh, ah, NoResult)

\* the bullet of the current iteration of the outer loop
bullet == bullets[bi]

\* the inner loop bounded by the live list, children included
EligibleWithChildren == asteroids \o newAsteroids

\* the inner loop stopping one short: i < asteroidCount - 1
EligibleButLast == SubSeq(asteroids, 1, asteroidCount - 1)

\* the asteroids the inner loop ranges over: indices 0..asteroidCount-1
Eligible == SubSeq(asteroids, 1, asteroidCount)

\* the inner loop running from the last asteroid down
CandidateFromEnd(k) == Eligible[Len(Eligible) - k]

\* asteroids[k] of the inner loop, k counted from 0
Candidate(k) == Eligible[k + 1]

\* the outer loop without its `continue`
AlreadyConsumedNever(b) == FALSE

\* bulletsToRemove.has(b)
AlreadyConsumed(b) == b \in bulletsToRemove

\* the inner loop without its `continue`
AlreadyDestroyedNever(a) == FALSE

\* asteroidsToRemove.has(a)
AlreadyDestroyed(a) == a \in asteroidsToRemove

\* the identities the children of one breakup get
ChildIds(heap, children) ==
    [c \in 1..Len(children) |-> Cardinality(DOMAIN heap) + c]

\* a breakup that also stops its parent (this.vx = this.vy = 0)
AllocateStoppingParent(heap, parent, children) ==
    [id \in DOMAIN heap \cup {ChildIds(heap, children)[c] : c \in 1..Len(children)} |->
        IF id = parent THEN [heap[id] EXCEPT !.vx = 0, !.vy = 0]
        ELSE IF id \in DOMAIN heap THEN heap[id]
        ELSE children[id - Cardinality(DOMAIN heap)]]

\* a breakup that shrinks its parent to the children's tier (this.tier++)
AllocatePromotingParent(heap, parent, children) ==
    [id \in DOMAIN heap \cup {ChildIds(heap, children)[c] : c \in 1..Len(children)} |->
        IF id = parent /\ children # <<>>
        THEN [heap[id] EXCEPT !.tier = @ + 1, !.radius = TIER_RADII[heap[id].tier + 1]]
        ELSE IF id \in DOMAIN heap THEN heap[id]
        ELSE children[id - Cardinality(DOMAIN heap)]]

\* the heap after a breakup: the children are new objects, nothing else changes
Allocate(heap, parent, children) ==
    [id \in DOMAIN heap \cup {ChildIds(heap, children)[c] : c \in 1..Len(children)} |->
        IF id \in DOMAIN heap THEN heap[id]
        ELSE children[id - Cardinality(DOMAIN heap)]]

unchangedInputs ==
    UNCHANGED <<bulletHeap, bullets, asteroids, asteroidCount, entry, prev, applied, probe,
                game, dom, fpsCounter, ticks>>

\* for (const bullet of bullets): the next bullet was consumed before -> continue
SkipConsumedBullet ==
    /\ pc = "bullets"
    /\ bi < Len(bullets)
    /\ AlreadyConsumed(bullets[bi + 1])
    /\ bi' = bi + 1
    /\ UNCHANGED <<asteroidHeap, bulletsToRemove, asteroidsToRemove, newAsteroids,
                   scoreDelta, i, pc, hits>>
    /\ unchangedInputs

\* for (const bullet of bullets): enter the inner loop with i = 0
BeginScan ==
    /\ pc = "bullets"
    /\ bi < Len(bullets)
    /\ ~AlreadyConsumed(bullets[bi + 1])
    /\ bi' = bi + 1
    /\ i' = 0
    /\ pc' = "scan"
    /\ UNCHANGED <<asteroidHeap, bulletsToRemove, asteroidsToRemove, newAsteroids,
                   scoreDelta, hits>>
    /\ unchangedInputs

\* if (asteroidsToRemove.has(asteroid)) continue
ScanSkipDestroyed ==
    /\ pc = "scan"
    /\ i < Len(Eligible)
    /\ AlreadyDestroyed(Candidate(i))
    /\ i' = i + 1
    /\ UNCHANGED <<asteroidHeap, bulletsToRemove, asteroidsToRemove, newAsteroids,
                   scoreDelta, bi, pc, hits>>
    /\ unchangedInputs

\* circlesOverlap(bullet, asteroid) is false: next i
ScanMiss ==
    /\ pc = "scan"
    /\ i < Len(Eligible)
    /\ ~AlreadyDestroyed(Candidate(i))
    /\ ~circlesOverlap(bulletHeap[bullet], asteroidHeap[Candidate(i)])
    /\ i' = i + 1
    /\ UNCHANGED <<asteroidHeap, bulletsToRemove, asteroidsToRemove, newAsteroids,
                   scoreDelta, bi, pc, hits>>
    /\ unchangedInputs

\* the random streams a breakup can draw from: any of them in a single call;
\* in a run of ticks one, which changes from breakup to breakup
Draws ==
    IF ticks.loaded
    THEN {Tape(1 + (Cardinality(DOMAIN asteroidHeap) % NumTapes))}
    ELSE Tapes

\* circlesOverlap(bullet, asteroid) is true: consume, destroy, break up, break
ScanHit ==
    /\ pc = "scan"
    /\ i < Len(Eligible)
    /\ ~AlreadyDestroyed(Candidate(i))
    /\ circlesOverlap(bulletHeap[bullet], asteroidHeap[Candidate(i)])
    /\ \E tape \in Draws :
         LET asteroid == Candidate(i)
             result == Breakup(asteroidHeap[asteroid], tape)
             ids == ChildIds(asteroidHeap, result.children)
         IN  /\ bulletsToRemove' = bulletsToRemove \cup {bullet}
             /\ asteroidsToRemove' = asteroidsToRemove \cup {asteroid}
             /\ asteroidHeap' = Allocate(asteroidHeap, asteroid, result.children)
             /\ scoreDelta' = scoreDelta + result.score
             /\ newAsteroids' = newAsteroids \o ids
             /\ hits' = Append(hits, [b |-> bi, a |-> i + 1, id |-> asteroid,
                                      score |-> result.score, children |-> ids])
    /\ pc' = "bullets"
    /\ UNCHANGED <<bi, i>>
    /\ unchangedInputs

\* bulletsToRemove.add(bullet) done for a bullet that hit nothing
ScanExhaustedConsuming ==
    /\ pc = "scan"
    /\ i >= Len(Eligible)
    /\ pc' = "bullets"
    /\ bulletsToRemove' = bulletsToRemove \cup {bullet}
    /\ UNCHANGED <<asteroidHeap, asteroidsToRemove, newAsteroids, scoreDelta, bi, i, hits>>
    /\ unchangedInputs

\* i < asteroidCount is false: the bullet hit nothing
ScanExhausted ==
    /\ pc = "scan"
    /\ i >= Len(Eligible)
    /\ pc' = "bullets"
    /\ UNCHANGED <<asteroidHeap, bulletsToRemove, asteroidsToRemove, newAsteroids,
                   scoreDelta, bi, i, hits>>
    /\ unchangedInputs

\* return { bulletsToRemove, asteroidsToRemove, newAsteroids, scoreDelta }
Return ==
    /\ pc = "bullets"
    /\ bi >= Len(bullets)
    /\ pc' = "done"
    /\ UNCHANGED <<asteroidHeap, bulletsToRemove, asteroidsToRemove, newAsteroids,
                   scoreDelta, bi, i, hits>>
    /\ unchangedInputs

\* what the caller keeps of the returned object: the sets, the score, the
\* tiers of the children in order, and the first child
ResultSummary ==
    [called |-> TRUE,
     bulletsToRemove |-> bulletsToRemove,
     asteroidsToRemove |-> asteroidsToRemove,
     scoreDelta |-> scoreDelta,
     childTiers |-> [c \in 1..Len(newAsteroids) |-> asteroidHeap[newAsteroids[c]].tier],
     firstChild |-> IF newAsteroids = <<>> THEN <<>> ELSE <<asteroidHeap[newAsteroids[1]]>>]

\* the caller calls processBulletAsteroidCollisions(bullets, asteroids) a
\* second time with the same two arrays; the first call's children are dropped
CallAgain ==
    /\ pc = "done"
    /\ ~prev.called
    /\ prev' = ResultSummary
    /\ asteroidHeap' = [id \in DOMAIN asteroidHeap \ {newAsteroids[c] : c \in 1..Len(newAsteroids)}
                          |-> asteroidHeap[id]]
    /\ bulletsToRemove' = {}
    /\ asteroidsToRemove' = {}
    /\ newAsteroids' = <<>>
    /\ scoreDelta' = 0
    /\ asteroidCount' = Len(asteroids)
    /\ bi' = 0
    /\ i' = 0
    /\ pc' = "bullets"
    /\ entry' = [bullets |-> bullets, asteroids |-> asteroids,
                 bulletHeap |-> bulletHeap, asteroidHeap |-> asteroidHeap']
    /\ hits' = <<>>
    /\ UNCHANGED <<bulletHeap, bullets, asteroids, applied, probe, game, dom, fpsCounter,
                   ticks>>

\* one call
Next ==
    \/ SkipConsumedBullet
    \/ BeginScan
    \/ ScanSkipDestroyed
    \/ ScanMiss
    \/ ScanHit
    \/ ScanExhausted
    \/ Return

Spec == Init /\ [][Next]_vars

\* one call and a second one on the same arguments
NextTwice == Next \/ CallAgain

SpecTwice == Init /\ [][NextTwice]_vars

----------------------------------------------------------------------------
(* main.js: applyCollisionResults *)

\* arr.filter((e) => !removed.has(e)): the elements that pass, in order
Filter(arr, removed) == SelectSeq(arr, LAMBDA e : e \notin removed)

\* the children put in front of the survivors (unshift)
UnshiftAll(arr, children) == children \o arr

\* for (const child of newAsteroids) survivingAsteroids.push(child)
PushAll(arr, children) == arr \o children

\* what the doc comment announces: both arguments are filtered and extended
\* in place and handed back
applyCollisionResultsInPlace(bs, as, result) ==
    LET survivingBullets == Filter(bs, result.bulletsToRemove)
        survivingAsteroids ==
            PushAll(Filter(as, result.asteroidsToRemove), result.newAsteroids)
    IN  [called |-> TRUE,
         bullets |-> [ref |-> "bullets", items |-> survivingBullets],
         asteroids |-> [ref |-> "asteroids", items |-> survivingAsteroids],
         scoreDelta |-> result.scoreDelta,
         args |-> [bullets |-> survivingBullets, asteroids |-> survivingAsteroids,
                   newAsteroids |-> result.newAsteroids]]

\* applyCollisionResults(bullets, asteroids, result): the returned object, each
\* array with the container it is (ref), and under args the three argument
\* arrays as the call leaves them
applyCollisionResults(bs, as, result) ==
    LET survivingBullets == Filter(bs, result.bulletsToRemove)
        survivingAsteroids ==
            PushAll(Filter(as, result.asteroidsToRemove), result.newAsteroids)
    IN  [called |-> TRUE,
         bullets |-> [ref |-> "survivingBullets", items |-> survivingBullets],
         asteroids |-> [ref |-> "survivingAsteroids", items |-> survivingAsteroids],
         scoreDelta |-> result.scoreDelta,
         args |-> [bullets |-> bs, asteroids |-> as,
                   newAsteroids |-> result.newAsteroids]]

\* the containers the caller passed in
ArgumentRefs == {"bullets", "asteroids", "newAsteroids"}

\* the caller applies the result of the call that has just returned
Apply ==
    /\ pc = "done"
    /\ ~applied.called
    /\ LET r == applyCollisionResults(bullets, asteroids,
                    [bulletsToRemove |-> bulletsToRemove,
                     asteroidsToRemove |-> asteroidsToRemove,
                     newAsteroids |-> newAsteroids,
                     scoreDelta |-> scoreDelta])
       IN  /\ applied' = r
           /\ bullets' = r.args.bullets
           /\ asteroids' = r.args.asteroids
           /\ newAsteroids' = r.args.newAsteroids
    /\ UNCHANGED <<bulletHeap, asteroidHeap, bulletsToRemove, asteroidsToRemove,
                   scoreDelta, asteroidCount, bi, i, pc, entry, hits, prev, probe,
                   game, dom, fpsCounter, ticks>>

\* one call and the application of its result
NextApply == Next \/ Apply

SpecApply == Init /\ [][NextApply]_vars

----------------------------------------------------------------------------
(* main.js: tick after tick.  A caller holds the population and the score;
   each tick it calls processBulletAsteroidCollisions on the bullets of the
   tick and the population, then applyCollisionResults, keeps the asteroids
   array it returns and adds scoreDelta to the score.  Nothing else adds
   asteroids. *)

\* a point out of reach of every asteroid
FarPoint == <<1000, 1000>>

\* where the bullets of a tick can be: on the first live asteroid, and with
\* it in reach of those around it, or far from all
AimPoints(population, heap) ==
    {<<heap[population[k]].x, heap[population[k]].y>> : k \in {1} \cap DOMAIN population}
        \cup {FarPoint}

\* the asteroids a population can start with: one of each tier, on one spot;
\* a population starts with its largest asteroids first
TickAsteroids == {a \in InputAsteroids : a.x = 100 /\ a.y = 100}

\* the bullet objects of a tick: up to MaxShots of them, those that are far
\* from all asteroids last
Shots(points) ==
    LET far == Bullet(FarPoint[1], FarPoint[2], 0, -300000)
    IN  {shots \in UNION {[1..n -> {Bullet(p[1], p[2], 0, -300000) : p \in points}] :
                              n \in 0..MaxShots} :
            \A k \in 1..(Len(shots) - 1) : shots[k] = far => shots[k + 1] = far}

\* the bullets arrays over some bullet objects: an object can occur twice
ShotArrays(shots) == UNION {Arrays(n, Len(shots)) : n \in Len(shots)..MaxShots}

\* the tiers of the asteroids of an array
TiersOf(population, heap) == [k \in 1..Len(population) |-> heap[population[k]].tier]

\* the caller before its first tick; initial holds the tiers of the
\* population it starts with, destroyed counts the asteroids removed so far,
\* missed tells whether some tick had no bullet overlapping a live asteroid
TicksLoaded(initial) ==
    [loaded |-> TRUE, score |-> 0, destroyed |-> 0, missed |-> FALSE,
     initial |-> initial, lastDelta |-> 0]

InitTicks ==
    \E m \in 0..MaxPopulation :
      \E ah \in {h \in [1..m -> TickAsteroids] :
                      \A k \in 1..(m - 1) : h[k].tier <= h[k + 1].tier} :
        LET population == [k \in 1..m |-> k]
        IN  \E shots \in Shots(AimPoints(population, ah)) :
              \E bs \in ShotArrays(shots) :
                /\ EnterCall(bs, population, shots, ah, NoResult)
                /\ ticks = TicksLoaded(TiersOf(population, ah))

\* the call has returned: the caller applies the result, keeps the returned
\* asteroids and the score, and calls again with the bullets of the next tick
Tick ==
    /\ pc = "done"
    /\ LET r == applyCollisionResults(bullets, asteroids,
                    [bulletsToRemove |-> bulletsToRemove,
                     asteroidsToRemove |-> asteroidsToRemove,
                     newAsteroids |-> newAsteroids,
                     scoreDelta |-> scoreDelta])
           population == r.asteroids.items
           overlapped == \E k \in 1..Len(bullets), j \in 1..Len(asteroids) :
                            circlesOverlap(bulletHeap[bullets[k]], asteroidHeap[asteroids[j]])
       IN  \E shots \in Shots(AimPoints(population, asteroidHeap)) :
             /\ bullets' \in ShotArrays(shots)
             /\ bulletHeap' = shots
             /\ asteroids' = population
             /\ asteroidCount' = Len(population)
             /\ entry' = [bullets |-> bullets', asteroids |-> population,
                          bulletHeap |-> shots, asteroidHeap |-> asteroidHeap]
             /\ ticks' = Assign(ticks,
                                [score |-> ticks.score + r.scoreDelta,
                                 destroyed |-> ticks.destroyed + Cardinality(asteroidsToRemove),
                                 missed |-> ticks.missed \/ ~overlapped,
                                 lastDelta |-> r.scoreDelta])
    /\ bulletsToRemove' = {}
    /\ asteroidsToRemove' = {}
    /\ newAsteroids' = <<>>
    /\ scoreDelta' = 0
    /\ bi' = 0
    /\ i' = 0
    /\ pc' = "bullets"
    /\ hits' = <<>>
    /\ UNCHANGED <<asteroidHeap, prev, applied, probe, game, dom, fpsCounter>>

NextTicks == Next \/ Tick

SpecTicks == InitTicks /\ [][NextTicks]_vars

\* the caller keeps ticking and every call runs to its return
SpecTicksFair == SpecTicks /\ WF_vars(NextTicks)

----------------------------------------------------------------------------
(* asteroid.js: breakup called directly *)

\* no collision pass is in progress
NoCall ==
    /\ bullets = <<>>
    /\ asteroids = <<>>
    /\ bulletHeap = <<>>
    /\ bulletsToRemove = {}
    /\ asteroidsToRemove = {}
    /\ newAsteroids = <<>>
    /\ scoreDelta = 0
    /\ asteroidCount = 0
    /\ bi = 0
    /\ i = 0
    /\ pc = "idle"
    /\ entry = [bullets |-> <<>>, asteroids |-> <<>>,
                bulletHeap |-> <<>>, asteroidHeap |-> <<>>]
    /\ hits = <<>>
    /\ prev = NoResult
    /\ applied = NotApplied
    /\ ticks = NotLoaded

unchangedCall ==
    UNCHANGED <<bulletHeap, bullets, asteroids, bulletsToRemove, asteroidsToRemove,
                newAsteroids, scoreDelta, asteroidCount, bi, i, pc, entry, hits,
                prev, applied, game, dom, fpsCounter, ticks>>

\* the velocities of the asteroids broken up directly, a resting one included
DirectVelocities == {InputVelocity(t) : t \in 1..3} \cup {<<0, 0>>}

\* the first four draws of a child: d[1] for offsetX and its mirror image for
\* offsetY, d[2] for the angle, d[3] for the scale
DirectDraws(d) == <<d[1], RandDenom - 1 - d[1], d[2], d[3]>>

\* a stream whose first child draws DirectDraws(d) and whose second child
\* draws the mirror image of it
DirectTape(d) ==
    [j \in 1..(2 * DrawsPerChild) |->
        IF j <= 4 THEN DirectDraws(d)[j]
        ELSE IF j > DrawsPerChild /\ j <= DrawsPerChild + 4
             THEN RandDenom - 1 - DirectDraws(d)[j - DrawsPerChild]
        ELSE Tape(1)[j]]

DirectTapes == {DirectTape(d) : d \in [1..3 -> 0..(RandDenom - 1)]}

\* an asteroid of every tier and velocity, alone on the heap, not yet broken up
InitBreakup ==
    /\ NoCall
    /\ NoEngine
    /\ \E t \in 1..3, v \in DirectVelocities :
         LET this == Asteroid(t, 100, 100, v[1], v[2],
                              SubSeq(Tape(1), 1, DrawsPerAsteroid))
         IN  /\ asteroidHeap = <<this>>
             /\ probe = [fn |-> "breakup", this |-> this, calls |-> 0,
                          children |-> <<>>, score |-> 0]

\* const { children, score } = asteroid.breakup(); the children of an earlier
\* call are dropped
CallBreakup ==
    /\ probe.fn = "breakup"
    /\ probe.calls < MaxCalls
    /\ \E tape \in DirectTapes :
         LET heap == <<asteroidHeap[1]>>
             r == Breakup(heap[1], tape)
         IN  /\ asteroidHeap' = Allocate(heap, 1, r.children)
             /\ probe' = [probe EXCEPT !.calls = @ + 1,
                                        !.children = ChildIds(heap, r.children),
                                        !.score = r.score]
    /\ unchangedCall

SpecBreakup == InitBreakup /\ [][CallBreakup]_vars

----------------------------------------------------------------------------
(* asteroid.js: the constructor called directly *)

\* a constructor call about to be made, the tier any number of halves
InitNew ==
    /\ NoCall
    /\ NoEngine
    /\ asteroidHeap = <<>>
    /\ \E tierHalves \in 0..MaxTierHalves, p \in AsteroidPoints,
          v \in DirectVelocities, tape \in Tapes :
         probe = [fn |-> "new Asteroid", called |-> FALSE,
                  tierHalves |-> tierHalves, x |-> p[1], y |-> p[2],
                  vx |-> v[1], vy |-> v[2],
                  rnd |-> SubSeq(tape, 1, DrawsPerAsteroid),
                  threw |-> FALSE]

\* new Asteroid({...}) returns: the object is on the heap
NewReturns ==
    /\ probe.fn = "new Asteroid"
    /\ ~probe.called
    /\ LET r == NewAsteroid(probe.tierHalves, probe.x, probe.y,
                            probe.vx, probe.vy, probe.rnd)
       IN  /\ r # RangeError
           /\ asteroidHeap' = <<r>>
           /\ probe' = [probe EXCEPT !.called = TRUE]
    /\ unchangedCall

\* new Asteroid({...}) throws: no object comes to be
NewThrows ==
    /\ probe.fn = "new Asteroid"
    /\ ~probe.called
    /\ NewAsteroid(probe.tierHalves, probe.x, probe.y,
                   probe.vx, probe.vy, probe.rnd) = RangeError
    /\ probe' = [probe EXCEPT !.called = TRUE, !.threw = TRUE]
    /\ UNCHANGED asteroidHeap
    /\ unchangedCall

NextNew == NewReturns \/ NewThrows

SpecNew == InitNew /\ [][NextNew]_vars

----------------------------------------------------------------------------
(* collision.js: circlesOverlap called directly *)

Circles ==
    [x : 0..MaxCoord, y : 0..MaxCoord, radius : 0..MaxCircleRadius]

InitOverlap ==
    /\ NoCall
    /\ NoEngine
    /\ asteroidHeap = <<>>
    /\ \E a \in Circles, b \in Circles :
         probe = [fn |-> "circlesOverlap", called |-> FALSE, a |-> a, b |-> b,
                  ab |-> FALSE, ba |-> FALSE]

\* circlesOverlap(a, b) and circlesOverlap(b, a)
CallOverlap ==
    /\ probe.fn = "circlesOverlap"
    /\ ~probe.called
    /\ probe' = [probe EXCEPT !.called = TRUE,
                               !.ab = circlesOverlap(probe.a, probe.b),
                               !.ba = circlesOverlap(probe.b, probe.a)]
    /\ UNCHANGED asteroidHeap
    /\ unchangedCall

SpecOverlap == InitOverlap /\ [][CallOverlap]_vars

----------------------------------------------------------------------------
(* asteroid.js: randomDeflectionAngle called directly *)

\* the values of Math.random() * 30, in hundredths of a degree
AngleDraws == 0..2999

InitAngle ==
    /\ NoCall
    /\ NoEngine
    /\ asteroidHeap = <<>>
    /\ \E t \in AngleDraws :
         probe = [fn |-> "randomDeflectionAngle", called |-> FALSE, t |-> t,
                  angle |-> 0]

CallAngle ==
    /\ probe.fn = "randomDeflectionAngle"
    /\ ~probe.called
    /\ probe' = [probe EXCEPT !.called = TRUE, !.angle = DeflectionOf(probe.t)]
    /\ UNCHANGED asteroidHeap
    /\ unchangedCall

SpecAngle == InitAngle /\ [][CallAngle]_vars

----------------------------------------------------------------------------
(* canvas.js and engine/game-loop.js: the page, resize handling *)

\* viewport sizes in CSS pixels and device pixel ratios
WindowSizes == {<<800, 600>>, <<1920, 1080>>}

PixelRatios == {1, 2}

\* canvas.width = w; canvas.height = h: setting either attribute resets the
\* 2D context, its transform included
SetCanvasSize(d, w, h) == Assign(d, [width |-> w, height |-> h, transform |-> 1])

\* resizeCanvas() of canvas.js
resizeCanvas(d) ==
    LET dpr == d.devicePixelRatio
        sized == SetCanvasSize(Assign(d, [logicalWidth |-> d.innerWidth,
                                          logicalHeight |-> d.innerHeight]),
                               d.innerWidth * dpr, d.innerHeight * dpr)
    IN  Assign(sized, [transform |-> dpr])

\* a handleResize that sizes the backing buffer in device pixels
handleResizeScaled(d) ==
    SetCanvasSize(d, d.innerWidth * d.devicePixelRatio,
                     d.innerHeight * d.devicePixelRatio)

\* handleResize() of game-loop.js
handleResize(d) == SetCanvasSize(d, d.innerWidth, d.innerHeight)

\* one listener of the resize event
Listen(name, d) ==
    CASE name = "resizeCanvas" -> resizeCanvas(d)
      [] name = "handleResize" -> handleResize(d)

\* window.dispatchEvent(new Event('resize')): the listeners run in the order
\* they were added
RECURSIVE Dispatch(_, _)
Dispatch(listeners, d) ==
    IF listeners = <<>> THEN d
    ELSE Dispatch(Tail(listeners), Listen(Head(listeners), d))

\* getWidth() and getHeight() of canvas.js
getWidth(d) == d.logicalWidth

getHeight(d) == d.logicalHeight

\* the page once canvas.js and then game-loop.js have been evaluated:
\* canvas.js has sized the canvas once, and each module has added a listener
PageLoaded(size, dpr) ==
    LET blank == [loaded |-> TRUE,
                  innerWidth |-> size[1], innerHeight |-> size[2],
                  devicePixelRatio |-> dpr,
                  width |-> 300, height |-> 150, transform |-> 1,
                  logicalWidth |-> 0, logicalHeight |-> 0,
                  listeners |-> <<>>, resized |-> FALSE]
    IN  Assign(resizeCanvas(blank), [listeners |-> <<"resizeCanvas", "handleResize">>])

----------------------------------------------------------------------------
(* engine/game-loop.js: startLoop *)

\* Times in seconds are counted in units of 1/3000 s, in which the timestep
\* is whole; timestamps are whole milliseconds.
UnitsPerMs == 3

\* the 1 of `fpsTimer >= 1`: one second
OneSecond == 3000

\* FIXED_DT = 1 / 60
FIXED_DT == 50

\* a requestAnimationFrame that schedules nothing
requestAnimationFrameDropped(queue) == queue

\* requestAnimationFrame(loop): one more callback of loop is pending
requestAnimationFrame(queue) == queue + 1

\* a loop that steps the physics at most once a frame
DrainOnce(accumulator, updates) ==
    IF accumulator >= FIXED_DT
    THEN [accumulator |-> accumulator - FIXED_DT, updates |-> updates + 1]
    ELSE [accumulator |-> accumulator, updates |-> updates]

\* while (accumulator >= FIXED_DT) { updateFn(FIXED_DT); accumulator -= FIXED_DT }
RECURSIVE Drain(_, _)
Drain(accumulator, updates) ==
    IF accumulator >= FIXED_DT
    THEN Drain(accumulator - FIXED_DT, updates + 1)
    ELSE [accumulator |-> accumulator, updates |-> updates]

\* the updateFn calls of a frame
UpdateCalls(n) == [k \in 1..n |-> [op |-> "updateFn", dt |-> FIXED_DT]]

\* the overlay drawn whatever the flag
DebugOverlayAlways(showDebug, fps) ==
    <<[op |-> "fillText", text |-> <<"FPS: ", fps>>, x |-> 10, y |-> 20,
       font |-> "14px monospace", fillStyle |-> "white"]>>

\* if (showDebug) { ctx.font = ...; ctx.fillStyle = ...; ctx.fillText(...) }
DebugOverlay(showDebug, fps) ==
    IF showDebug
    THEN <<[op |-> "fillText", text |-> <<"FPS: ", fps>>, x |-> 10, y |-> 20,
            font |-> "14px monospace", fillStyle |-> "white"]>>
    ELSE <<>>

\* the render pass with the wipe after the drawing
RenderPassWipeLast(d) ==
    <<[op |-> "renderFn", arg |-> "ctx"],
      [op |-> "clearRect", x |-> 0, y |-> 0, w |-> getWidth(d), h |-> getHeight(d)]>>

\* ctx.clearRect(0, 0, getWidth(), getHeight()); renderFn(ctx)
RenderPass(d) ==
    <<[op |-> "clearRect", x |-> 0, y |-> 0, w |-> getWidth(d), h |-> getHeight(d)],
      [op |-> "renderFn", arg |-> "ctx"]>>

\* loop(timestamp) of the closure state g on the page d: the state it leaves,
\* and under frame what the call did, in order
loop(g, d, timestamp) ==
    IF g.lastTime = 0
    THEN Assign(g, [lastTime |-> timestamp,
                    rafQueue |-> requestAnimationFrame(g.rafQueue),
                    frame |-> [timestamp |-> timestamp, measured |-> FALSE,
                               elapsed |-> 0, leftover |-> g.accumulator,
                               showDebug |-> g.showDebug, events |-> <<>>]])
    ELSE LET elapsed == (timestamp - g.lastTime) * UnitsPerMs
             frameCount == g.frameCount + 1
             fpsTimer == g.fpsTimer + elapsed
             second == fpsTimer >= OneSecond
             fps == IF second THEN frameCount ELSE g.fps
             drained == Drain(g.accumulator + elapsed, 0)
         IN  Assign(g, [lastTime |-> timestamp,
                        frameCount |-> IF second THEN 0 ELSE frameCount,
                        fpsTimer |-> IF second THEN fpsTimer - OneSecond ELSE fpsTimer,
                        fps |-> fps,
                        accumulator |-> drained.accumulator,
                        rafQueue |-> requestAnimationFrame(g.rafQueue),
                        frame |-> [timestamp |-> timestamp, measured |-> TRUE,
                                   elapsed |-> elapsed, leftover |-> g.accumulator,
                                   showDebug |-> g.showDebug,
                                   events |-> UpdateCalls(drained.updates)
                                                \o RenderPass(d)
                                                \o DebugOverlay(g.showDebug, fps)]])

\* the timestamps of the first frame, and the steps from one frame to the next
FirstTimestamps == {0, 5, 1000}

FrameSteps == {-5, 0, 10, 50, 1000}

\* game-loop.js has been evaluated; startLoop has not been called
GameLoaded ==
    [loaded |-> TRUE, showDebug |-> FALSE, started |-> FALSE,
     lastTime |-> 0, accumulator |-> 0, fps |-> 0, frameCount |-> 0, fpsTimer |-> 0,
     rafQueue |-> 0, frames |-> 0, first |-> 0, monotone |-> TRUE,
     frame |-> [timestamp |-> 0, measured |-> FALSE, elapsed |-> 0, leftover |-> 0,
                showDebug |-> FALSE, events |-> <<>>]]

InitLoop ==
    /\ NoCall
    /\ asteroidHeap = <<>>
    /\ probe = NoProbe
    /\ fpsCounter = NotLoaded
    /\ game = GameLoaded
    /\ \E size \in WindowSizes, dpr \in PixelRatios : dom = PageLoaded(size, dpr)

unchangedByEngine ==
    UNCHANGED <<bulletHeap, asteroidHeap, bullets, asteroids, bulletsToRemove,
                asteroidsToRemove, newAsteroids, scoreDelta, asteroidCount, bi, i,
                pc, entry, hits, prev, applied, probe, ticks>>

\* startLoop(updateFn, renderFn)
StartLoop ==
    /\ ~game.started
    /\ game' = Assign(game, [started |-> TRUE,
                             rafQueue |-> requestAnimationFrame(game.rafQueue)])
    /\ UNCHANGED <<dom, fpsCounter>>
    /\ unchangedByEngine

\* the browser runs one pending callback of loop with the frame's timestamp
Frame ==
    /\ game.rafQueue > 0
    /\ game.frames < MaxFrames
    /\ \E timestamp \in IF game.frames = 0 THEN FirstTimestamps
                         ELSE {game.frame.timestamp + step : step \in FrameSteps} :
         /\ timestamp >= 0
         /\ game' = Assign(loop(Assign(game, [rafQueue |-> game.rafQueue - 1]),
                                dom, timestamp),
                           [frames |-> game.frames + 1,
                            first |-> IF game.frames = 0 THEN timestamp ELSE game.first,
                            monotone |-> game.monotone
                                /\ (game.frames = 0 \/ timestamp >= game.frame.timestamp)])
    /\ UNCHANGED <<dom, fpsCounter>>
    /\ unchangedByEngine

\* setDebug(enabled)
SetDebug ==
    /\ \E enabled \in BOOLEAN : game' = Assign(game, [showDebug |-> enabled])
    /\ UNCHANGED <<dom, fpsCounter>>
    /\ unchangedByEngine

\* the viewport changes and the window dispatches a resize event
Resize ==
    /\ \E size \in WindowSizes :
         dom' = Dispatch(dom.listeners,
                         Assign(dom, [innerWidth |-> size[1], innerHeight |-> size[2],
                                      resized |-> TRUE]))
    /\ UNCHANGED <<game, fpsCounter>>
    /\ unchangedByEngine

NextLoop == StartLoop \/ Frame \/ SetDebug \/ Resize

SpecLoop == InitLoop /\ [][NextLoop]_vars

----------------------------------------------------------------------------
(* fpsCounter.js *)

ROLLING_WINDOW == 30

DISPLAY_INTERVAL_MS == 250

\* a JavaScript number that is an integer, and the number Infinity
Number(n) == [finite |-> TRUE, value |-> n]

Infinity == [finite |-> FALSE, value |-> 0]

\* the null of prevTimestamp; no DOMHighResTimeStamp is negative
NoTimestamp == 0 - 1

\* Math.round(1000 / (sum / n)) for whole sum and n > 0: the nearest integer,
\* a half rounded up; 1000 / 0 is Infinity
RoundedRate(sum, n) ==
    IF sum = 0 THEN Infinity
    ELSE IF sum > 0 THEN Number((2 * 1000 * n + sum) \div (2 * sum))
    ELSE Number((-(2 * 1000 * n) - sum) \div (-(2 * sum)))

\* frameTimes.reduce((sum, d) => sum + d, 0)
RECURSIVE Reduce(_)
Reduce(frameTimes) ==
    IF frameTimes = <<>> THEN 0 ELSE Head(frameTimes) + Reduce(Tail(frameTimes))

\* a window that drops its newest entry when it is full
PushDroppingNewest(frameTimes, delta) ==
    IF Len(frameTimes) + 1 > ROLLING_WINDOW THEN frameTimes
    ELSE Append(frameTimes, delta)

\* frameTimes.push(delta); if (frameTimes.length > ROLLING_WINDOW) frameTimes.shift()
Push(frameTimes, delta) ==
    LET pushed == Append(frameTimes, delta)
    IN  IF Len(pushed) > ROLLING_WINDOW THEN Tail(pushed) ELSE pushed

\* a display refreshed on every frame
DisplayDueAlways(timestamp, lastDisplayUpdate) == TRUE

\* timestamp - lastDisplayUpdate >= DISPLAY_INTERVAL_MS
DisplayDue(timestamp, lastDisplayUpdate) ==
    timestamp - lastDisplayUpdate >= DISPLAY_INTERVAL_MS

\* a toggle that only switches the counter on
toggleOn(showFPS) == TRUE

\* showFPS = !showFPS
toggle(showFPS) == ~showFPS

\* updateFPS(timestamp) on the module state f; recalculated tells whether
\* the call assigned displayedFPS
updateFPS(f, timestamp) ==
    IF f.prevTimestamp = NoTimestamp
    THEN Assign(f, [prevTimestamp |-> timestamp, recalculated |-> FALSE])
    ELSE LET delta == timestamp - f.prevTimestamp
             frameTimes == Push(f.frameTimes, delta)
             due == DisplayDue(timestamp, f.lastDisplayUpdate) /\ Len(frameTimes) > 0
         IN  Assign(f, [frameTimes |-> frameTimes,
                        displayedFPS |-> IF due
                                         THEN RoundedRate(Reduce(frameTimes), Len(frameTimes))
                                         ELSE f.displayedFPS,
                        lastDisplayUpdate |-> IF due THEN timestamp
                                              ELSE f.lastDisplayUpdate,
                        recalculated |-> due,
                        prevTimestamp |-> timestamp])

PAD == 10

BG_PAD_X == 6

BG_PAD_Y == 4

\* const textHeight = 14
TextHeight == 14

\* the width measureText reports for a text in the monospace font
CharWidth == 8

TextWidth(text) == CharWidth * Len(text)

\* the characters of the decimal numeral of a natural number
Digit(n) == <<"0", "1", "2", "3", "4", "5", "6", "7", "8", "9">>[n + 1]

RECURSIVE Digits(_)
Digits(n) ==
    IF n < 10 THEN <<Digit(n)>> ELSE Append(Digits(n \div 10), Digit(n % 10))

\* the characters of String(number)
NumberToString(number) ==
    IF ~number.finite THEN <<"I", "n", "f", "i", "n", "i", "t", "y">>
    ELSE IF number.value < 0 THEN <<"-">> \o Digits(-number.value)
    ELSE Digits(number.value)

\* `FPS: ${displayedFPS}`
FpsText(displayedFPS) == <<"F", "P", "S", ":", " ">> \o NumberToString(displayedFPS)

\* a call of a method of the drawing context
CtxCall(method, text, x, y, w, h) ==
    [method |-> method, text |-> text, x |-> x, y |-> y, w |-> w, h |-> h]

\* the drawing of a counter that never hides
renderFPSUnguarded(f) ==
    LET text == FpsText(f.displayedFPS)
    IN  <<CtxCall("save", <<>>, 0, 0, 0, 0),
          CtxCall("measureText", text, 0, 0, 0, 0),
          CtxCall("fillRect", <<>>, PAD - BG_PAD_X, PAD - BG_PAD_Y,
                  TextWidth(text) + BG_PAD_X * 2, TextHeight + BG_PAD_Y * 2),
          CtxCall("fillText", text, PAD, PAD, 0, 0),
          CtxCall("restore", <<>>, 0, 0, 0, 0)>>

\* renderFPS(ctx) on the module state f: the method calls it makes on ctx,
\* in order
renderFPS(f) ==
    IF ~f.showFPS THEN <<>>
    ELSE LET text == FpsText(f.displayedFPS)
             textWidth == TextWidth(text)
             bgX == PAD - BG_PAD_X
             bgY == PAD - BG_PAD_Y
             bgW == textWidth + BG_PAD_X * 2
             bgH == TextHeight + BG_PAD_Y * 2
         IN  <<CtxCall("save", <<>>, 0, 0, 0, 0),
               CtxCall("measureText", text, 0, 0, 0, 0),
               CtxCall("fillRect", <<>>, bgX, bgY, bgW, bgH),
               CtxCall("fillText", text, PAD, PAD, 0, 0),
               CtxCall("restore", <<>>, 0, 0, 0, 0)>>

\* no renderFPS call was the last call of the module
NotRendered == [called |-> FALSE, ctx |-> <<>>]

\* the first timestamps and the frame intervals of the counter, in ms
FpsFirstTimestamps == {0, 1000}

FpsSteps == {0, 50}

\* fpsCounter.js has been evaluated; dev is import.meta.env.DEV.
\* timestamps holds the arguments of the updateFPS calls in arrival order,
\* switches counts the changes of the frame interval, recalculatedAt holds
\* the timestamp of the last call that assigned displayedFPS, toggled the
\* value toggleFPS returned last (dev before its first call), history the
\* last two calls of toggleFPS and isFPSVisible, rendered the calls on ctx of
\* a renderFPS call that was the last call of the module.
FpsLoaded(dev) ==
    [loaded |-> TRUE, dev |-> dev,
     showFPS |-> dev, frameTimes |-> <<>>, prevTimestamp |-> NoTimestamp,
     displayedFPS |-> Number(0), lastDisplayUpdate |-> 0,
     recalculated |-> FALSE, recalculatedAt |-> 0,
     timestamps |-> <<>>, switches |-> 0, toggled |-> dev, history |-> <<>>,
     rendered |-> NotRendered]

InitFPS ==
    /\ NoCall
    /\ asteroidHeap = <<>>
    /\ probe = NoProbe
    /\ game = NotLoaded
    /\ dom = NotLoaded
    /\ \E dev \in BOOLEAN : fpsCounter = FpsLoaded(dev)

\* the last two calls with one more
Recent(history, call) ==
    IF Len(history) < 2 THEN Append(history, call) ELSE <<history[2], call>>

\* the timestamps a frame can bring after those of earlier frames
NextTimestamps(timestamps) ==
    IF timestamps = <<>> THEN FpsFirstTimestamps
    ELSE {timestamps[Len(timestamps)] + step : step \in FpsSteps}

\* timestamp changes the frame interval of the frames before it
Switches(timestamps, timestamp) ==
    LET n == Len(timestamps)
    IN  n >= 2 /\ timestamp - timestamps[n] # timestamps[n] - timestamps[n - 1]

\* updateFPS(timestamp), once a frame
UpdateFPS ==
    /\ Len(fpsCounter.timestamps) < MaxUpdates
    /\ \E timestamp \in NextTimestamps(fpsCounter.timestamps) :
         LET switch == Switches(fpsCounter.timestamps, timestamp)
             after == updateFPS(fpsCounter, timestamp)
         IN  /\ switch => fpsCounter.switches < MaxSwitches
             /\ fpsCounter' =
                    Assign(after,
                           [timestamps |-> Append(fpsCounter.timestamps, timestamp),
                            switches |-> fpsCounter.switches + (IF switch THEN 1 ELSE 0),
                            recalculatedAt |-> IF after.recalculated THEN timestamp
                                               ELSE fpsCounter.recalculatedAt,
                            rendered |-> NotRendered])
    /\ UNCHANGED <<game, dom>>
    /\ unchangedByEngine

\* toggleFPS()
ToggleFPS ==
    /\ LET showFPS == toggle(fpsCounter.showFPS)
       IN  fpsCounter' =
               Assign(fpsCounter,
                      [showFPS |-> showFPS,
                       toggled |-> showFPS,
                       rendered |-> NotRendered,
                       history |-> Recent(fpsCounter.history,
                                          [fn |-> "toggleFPS",
                                           before |-> fpsCounter.showFPS,
                                           returned |-> showFPS])])
    /\ UNCHANGED <<game, dom>>
    /\ unchangedByEngine

\* isFPSVisible()
IsFPSVisible ==
    /\ fpsCounter' =
           Assign(fpsCounter,
                  [rendered |-> NotRendered,
                   history |-> Recent(fpsCounter.history,
                                      [fn |-> "isFPSVisible",
                                       before |-> fpsCounter.showFPS,
                                       returned |-> fpsCounter.showFPS])])
    /\ UNCHANGED <<game, dom>>
    /\ unchangedByEngine

\* renderFPS(ctx)
RenderFPS ==
    /\ fpsCounter' =
           Assign(fpsCounter,
                  [rendered |-> [called |-> TRUE, ctx |-> renderFPS(fpsCounter)]])
    /\ UNCHANGED <<game, dom>>
    /\ unchangedByEngine

NextFPS == UpdateFPS \/ ToggleFPS \/ IsFPSVisible \/ RenderFPS

SpecFPS == InitFPS /\ [][NextFPS]_vars

----------------------------------------------------------------------------
(* Vocabulary of the properties *)

\* the centres of a and b are no further apart than the sum of the radii
WithinReach(a, b) ==
    (a.x - b.x) * (a.x - b.x) + (a.y - b.y) * (a.y - b.y)
        <= (a.radius + b.radius) * (a.radius + b.radius)

\* the outer loop is through with the k-th element of bullets
TurnOver(k) == k < bi \/ (k = bi /\ pc # "scan")

\* k is the first position of its bullet in the input
FirstOccurrence(k) == \A l \in 1..(k - 1) : entry.bullets[l] # entry.bullets[k]

HitIndices == 1..Len(hits)

\* the asteroids destroyed before the turn of the k-th bullet
DestroyedBefore(k) == {hits[h].id : h \in {g \in HitIndices : hits[g].b < k}}

\* positions of the input asteroids array within reach of the k-th bullet
Overlapping(k) ==
    {j \in 1..Len(entry.asteroids) :
        WithinReach(entry.bulletHeap[entry.bullets[k]],
                    entry.asteroidHeap[entry.asteroids[j]])}

\* those of them not destroyed before the turn of the k-th bullet
LiveOverlapping(k) ==
    {j \in Overlapping(k) : entry.asteroids[j] \notin DestroyedBefore(k)}

Min(S) == CHOOSE m \in S : \A n \in S : m <= n

RECURSIVE SumOver(_, _)
SumOver(f, S) ==
    IF S = {} THEN 0
    ELSE LET e == CHOOSE e \in S : TRUE IN f[e] + SumOver(f, S \ {e})

\* the score the claims give a tier
TierScore(t) == CASE t = 1 -> 20 [] t = 2 -> 50 [] t = 3 -> 100

RECURSIVE Flatten(_)
Flatten(ss) == IF ss = <<>> THEN <<>> ELSE Head(ss) \o Flatten(Tail(ss))

----------------------------------------------------------------------------
(* Properties *)

RECURSIVE Without(_, _)
Without(seq, removed) ==
    IF seq = <<>> THEN <<>>
    ELSE (IF Head(seq) \in removed THEN <<>> ELSE <<Head(seq)>>)
             \o Without(Tail(seq), removed)

C13_BreakupByTier ==
    (probe.fn = "breakup" /\ probe.calls > 0) =>
        LET t == probe.this.tier
            kids == [c \in 1..Len(probe.children) |-> asteroidHeap[probe.children[c]]]
        IN  /\ t = 3 => Len(kids) = 0 /\ probe.score = 100
            /\ t = 2 => /\ Len(kids) = 2
                         /\ probe.score = 50
                         /\ \A c \in 1..2 : kids[c].tier = 3 /\ kids[c].radius = 10
            /\ t = 1 => /\ Len(kids) = 2
                         /\ probe.score = 20
                         /\ \A c \in 1..2 : kids[c].tier = 2 /\ kids[c].radius = 20

\* a tier-2 asteroid has been broken up into two children
C13_Witness ==
    /\ probe.fn = "breakup"
    /\ probe.calls > 0
    /\ probe.this.tier = 2
    /\ Len(probe.children) = 2
    /\ probe.score = 50

\* C14: breakup leaves every field of the asteroid it is called on as it was,
\* whatever the tier and however often it is called.
C14_BreakupLeavesParent ==
    probe.fn = "breakup" => asteroidHeap[1] = probe.this

\* an asteroid broken up twice, the second time into children again
C14_Witness ==
    /\ probe.fn = "breakup"
    /\ probe.calls = 2
    /\ Len(probe.children) = 2

\* |n|
Abs(n) == IF n < 0 THEN -n ELSE n

\* the children the last direct call of breakup returned
Kids == [c \in 1..Len(probe.children) |-> asteroidHeap[probe.children[c]]]

\* C18: each child of a breakup lies within 0.3 times the parent's radius of
\* the parent's centre on the x axis and on the y axis.
C18_ChildOffsetBounded ==
    (probe.fn = "breakup" /\ probe.calls > 0) =>
        \A c \in 1..Len(Kids) :
            /\ 10 * Abs(Kids[c].x - probe.this.x) <= 3 * probe.this.radius
            /\ 10 * Abs(Kids[c].y - probe.this.y) <= 3 * probe.this.radius

\* a child at the full 0.3 radii to the left of a tier-1 parent, its sibling
\* to the right of it
C18_Witness ==
    /\ probe.fn = "breakup"
    /\ probe.this.tier = 1
    /\ Len(Kids) = 2
    /\ Kids[1].x = probe.this.x - 12
    /\ Kids[2].x > probe.this.x

\* the squared speed of an object, in hundredths of (px/s)^2
SpeedSq(a) == (a.vx * a.vx + a.vy * a.vy) \div 10000

C15_TierChecked ==
    (probe.fn = "new Asteroid" /\ probe.called) =>
        IF probe.tierHalves \in {2, 4, 6}
        THEN /\ ~probe.threw
             /\ asteroidHeap[1].radius =
                    (CASE probe.tierHalves = 2 -> 40
                       [] probe.tierHalves = 4 -> 20
                       [] probe.tierHalves = 6 -> 10)
        ELSE probe.threw /\ asteroidHeap = <<>>

\* C16: circlesOverlap(a, b) = circlesOverlap(b, a) for all circles a, b.
C16_OverlapSymmetric ==
    (probe.fn = "circlesOverlap" /\ probe.called) => probe.ab = probe.ba

\* two overlapping circles of different radii at different centres
C16_Witness ==
    /\ probe.fn = "circlesOverlap"
    /\ probe.called
    /\ probe.a.radius > probe.b.radius
    /\ probe.a.x # probe.b.x
    /\ probe.a.y # probe.b.y
    /\ probe.ab

\* the squared distance of the centres of the two circles
DistSq == (probe.a.x - probe.b.x) * (probe.a.x - probe.b.x)
              + (probe.a.y - probe.b.y) * (probe.a.y - probe.b.y)

\* C17: circlesOverlap(a, b) is true exactly when dx^2 + dy^2 <= (ra + rb)^2:
\* centres exactly ra + rb apart overlap, centres further apart do not, and
\* a radius of 0 tests a point against a circle.
C17_OverlapIffWithinRadii ==
    (probe.fn = "circlesOverlap" /\ probe.called) =>
        /\ probe.ab <=> DistSq <= (probe.a.radius + probe.b.radius)
                                      * (probe.a.radius + probe.b.radius)
        /\ (probe.a.radius = 0 /\ DistSq = probe.b.radius * probe.b.radius) => probe.ab
        /\ (probe.a.radius = 0 /\ DistSq > probe.b.radius * probe.b.radius) => ~probe.ab

\* two circles touching in one point off both axes: the centres 3 and 4
\* apart on the axes, the radii 2 and 3
C17_Witness ==
    /\ probe.fn = "circlesOverlap"
    /\ probe.called
    /\ probe.a.x # probe.b.x
    /\ probe.a.y # probe.b.y
    /\ probe.a.radius > 0
    /\ probe.b.radius > 0
    /\ DistSq = (probe.a.radius + probe.b.radius) * (probe.a.radius + probe.b.radius)
    /\ probe.ab

\* C19: randomDeflectionAngle returns an angle of [-30, -15) or of [15, 30)
\* degrees, never one nearer to 0 or further from it; the lower half of the
\* draws is shifted onto the negative band and the upper half onto the
\* positive band, so each band has half of the probability.
C19_DeflectionBands ==
    (probe.fn = "randomDeflectionAngle" /\ probe.called) =>
        /\ Abs(probe.angle) >= 1500
        /\ Abs(probe.angle) <= 3000
        /\ 2 * probe.t < 3000 => probe.angle = probe.t - 3000
        /\ 2 * probe.t >= 3000 => probe.angle = probe.t

\* the draw just below the middle gives the angle nearest to -15 degrees
C19_Witness ==
    /\ probe.fn = "randomDeflectionAngle"
    /\ probe.called
    /\ probe.t = 1499
    /\ probe.angle = -1501

\* the positions of the calls of op among the effects of the last frame
Calls(op) == {k \in DOMAIN game.frame.events : game.frame.events[k].op = op}

\* a frame has been delivered to loop
FrameDelivered == game.loaded /\ game.frames > 0

C22_RenderOncePerFrame ==
    (FrameDelivered /\ game.frames >= 2) =>
        /\ Cardinality(Calls("renderFn")) = 1
        /\ \A k \in Calls("renderFn") : game.frame.events[k].arg = "ctx"

\* C23: the first frame delivered only records its timestamp: it calls
\* neither updateFn nor renderFn and clears and draws nothing, and the
\* elapsed time of the next frame is measured from that timestamp.
C23_FirstFrameRecords ==
    /\ (FrameDelivered /\ game.frames = 1) =>
           /\ game.frame.events = <<>>
           /\ game.lastTime = game.first
    /\ (FrameDelivered /\ game.frames = 2) =>
           /\ game.frame.measured
           /\ game.frame.elapsed = (game.frame.timestamp - game.first) * UnitsPerMs

\* the effects of the last frame of g, rendered on the page d, are n updateFn
\* calls, one clearRect over the logical size, one renderFn and at most one
\* fillText, in this order
FrameOrdered(g, d) ==
    LET events == g.frame.events
        n == Cardinality({k \in DOMAIN events : events[k].op = "updateFn"})
    IN  /\ Len(events) \in {n + 2, n + 3}
        /\ \A k \in 1..n : events[k].op = "updateFn"
        /\ events[n + 1] = [op |-> "clearRect", x |-> 0, y |-> 0,
                             w |-> getWidth(d), h |-> getHeight(d)]
        /\ events[n + 2].op = "renderFn"
        /\ Len(events) = n + 3 => events[n + 3].op = "fillText" /\ g.frame.showDebug

\* C24: a frame that renders has its effects in a fixed order: all its
\* updateFn calls, then ctx.clearRect(0, 0, getWidth(), getHeight()), then
\* renderFn, then the debug overlay if it is enabled; clearRect is called
\* once in the frame, before renderFn.
C24_FrameOrder ==
    [][(game'.frames > game.frames /\ game'.frame.events # <<>>)
          => FrameOrdered(game', dom)]_vars

\* a frame of two or more physics steps with the overlay drawn
C24_Witness ==
    /\ FrameDelivered
    /\ Cardinality(Calls("updateFn")) >= 2
    /\ Cardinality(Calls("clearRect")) = 1
    /\ Cardinality(Calls("fillText")) = 1

\* C25: from the return of startLoop on, exactly one callback of loop is
\* pending after every frame, the first included: the loop neither stops nor
\* multiplies.
C25_OneCallbackPending ==
    (game.loaded /\ game.started) => game.rafQueue = 1

\* the first frame and two more have been processed
C25_Witness ==
    /\ FrameDelivered
    /\ game.frames >= 3
    /\ game.frame.events # <<>>
    /\ game.rafQueue = 1

\* a frame draws the overlay exactly if the flag was set when it rendered,
\* and draws it after renderFn at (10, 20)
OverlayAsFlagged(g) ==
    LET events == g.frame.events
        drawn == {k \in DOMAIN events : events[k].op = "fillText"}
    IN  /\ (drawn # {}) <=> g.frame.showDebug
        /\ \A k \in drawn :
             /\ events[k].x = 10
             /\ events[k].y = 20
             /\ k = Len(events)
             /\ events[k - 1].op = "renderFn"

\* a step changes the flag only if it is no frame and no startLoop, and a
\* step that renders a frame renders it as the flag stands
DebugStep ==
    /\ (game'.showDebug # game.showDebug)
          => (game'.frames = game.frames /\ game'.started = game.started)
    /\ (game'.frames > game.frames /\ game'.frame.events # <<>>)
          => (game'.frame.showDebug = game.showDebug /\ OverlayAsFlagged(game'))

\* C26: the debug flag is false at first and changes only by setDebug; a
\* frame draws the FPS overlay if and only if the flag is true when the frame
\* is rendered, after renderFn and at (10, 20), so that setDebug(false)
\* suppresses the overlay from the next frame on.
C26_OverlayIffDebug ==
    /\ game.loaded => ~game.showDebug
    /\ [][DebugStep]_vars

\* the last frame drew the overlay, and setDebug(false) has been called since
C26_Witness ==
    /\ FrameDelivered
    /\ Calls("fillText") # {}
    /\ ~game.showDebug
    /\ game.frames < MaxFrames

C28_ToggleFlips ==
    fpsCounter.loaded =>
        LET history == fpsCounter.history
            n == Len(history)
        IN  /\ (n > 0 /\ history[n].fn = "toggleFPS") =>
                    /\ history[n].returned = ~history[n].before
                    /\ fpsCounter.showFPS = history[n].returned
            /\ (n > 0 /\ history[n].fn = "isFPSVisible") =>
                    /\ history[n].returned = fpsCounter.toggled
                    /\ fpsCounter.showFPS = history[n].before
            /\ (n = 2 /\ history[1].fn = "toggleFPS" /\ history[2].fn = "toggleFPS") =>
                    /\ history[2].before = history[1].returned
                    /\ history[2].returned = history[1].before

C28_Witness ==
    /\ fpsCounter.loaded
    /\ Len(fpsCounter.history) = 2
    /\ fpsCounter.history[1].fn = "toggleFPS"
    /\ fpsCounter.history[2].fn = "toggleFPS"
    /\ fpsCounter.showFPS = fpsCounter.history[1].before
    /\ Len(fpsCounter.timestamps) > 0

\* the differences of consecutive timestamps, in arrival order
Deltas(timestamps) ==
    [k \in 1..(Len(timestamps) - 1) |-> timestamps[k + 1] - timestamps[k]]

\* the last n elements of a sequence, all of a shorter one
Latest(seq, n) ==
    IF Len(seq) <= n THEN seq ELSE SubSeq(seq, Len(seq) - n + 1, Len(seq))

\* rate is 1000 over the mean of the window, rounded to the nearest integer
RateOfWindow(rate, window) ==
    LET sum == Reduce(window)
        n == Len(window)
    IN  IF sum = 0 THEN ~rate.finite
        ELSE /\ rate.finite
             /\ 2 * Abs(rate.value * sum - 1000 * n) <= Abs(sum)

\* C29: after any updateFPS calls the window holds the differences of
\* consecutive timestamps, the latest ROLLING_WINDOW of them at most and in
\* arrival order, so none for the first call; a call that recalculates
\* displayedFPS takes it from the window as it is after that call.
C29_RollingWindow ==
    fpsCounter.loaded =>
        /\ Len(fpsCounter.frameTimes) <= ROLLING_WINDOW
        /\ fpsCounter.frameTimes = Latest(Deltas(fpsCounter.timestamps), ROLLING_WINDOW)
        /\ fpsCounter.recalculated =>
                RateOfWindow(fpsCounter.displayedFPS, fpsCounter.frameTimes)

C29_Witness ==
    /\ fpsCounter.loaded
    /\ Len(fpsCounter.timestamps) > ROLLING_WINDOW + 1
    /\ Len(fpsCounter.frameTimes) = ROLLING_WINDOW
    /\ fpsCounter.frameTimes # SubSeq(Deltas(fpsCounter.timestamps), 1, ROLLING_WINDOW)
    /\ fpsCounter.recalculated
    /\ fpsCounter.displayedFPS.finite
    /\ fpsCounter.displayedFPS.value > 20

\* a step of the counter: an updateFPS call recalculates displayedFPS only
\* at a timestamp DISPLAY_INTERVAL_MS or more after that of the last
\* recalculation, and nothing else changes displayedFPS
ThrottledStep ==
    IF Len(fpsCounter'.timestamps) > Len(fpsCounter.timestamps)
    THEN LET timestamp == fpsCounter'.timestamps[Len(fpsCounter'.timestamps)]
         IN  /\ fpsCounter'.recalculated =>
                     timestamp - fpsCounter.recalculatedAt >= DISPLAY_INTERVAL_MS
             /\ ~fpsCounter'.recalculated =>
                     fpsCounter'.displayedFPS = fpsCounter.displayedFPS
    ELSE fpsCounter'.displayedFPS = fpsCounter.displayedFPS

\* C30: displayedFPS starts at 0; updateFPS recalculates it only when the
\* timestamp is 250 ms or more after the timestamp of the recalculation
\* before (0 when there was none), so two recalculations in a row are 250 ms
\* of timestamp apart or more; every other call leaves displayedFPS as it is.
C30_DisplayThrottled ==
    /\ (fpsCounter.loaded =>
            fpsCounter.displayedFPS = Number(0) /\ fpsCounter.recalculatedAt = 0)
    /\ [][fpsCounter.loaded => ThrottledStep]_vars

C30_Witness ==
    /\ fpsCounter.loaded
    /\ Len(fpsCounter.timestamps) > 0
    /\ fpsCounter.timestamps[1] = 0
    /\ fpsCounter.recalculatedAt >= 2 * DISPLAY_INTERVAL_MS
    /\ ~fpsCounter.recalculated
    /\ fpsCounter.prevTimestamp > fpsCounter.recalculatedAt
    /\ fpsCounter.displayedFPS.finite
    /\ fpsCounter.displayedFPS.value > 0

\* the positions of the calls of a method in a sequence of calls on ctx
CallsOf(ctx, method) == {k \in 1..Len(ctx) : ctx[k].method = method}

\* what updateFPS measures and keeps
Measurement(f) ==
    <<f.frameTimes, f.prevTimestamp, f.displayedFPS, f.lastDisplayUpdate>>

\* one save, then one fillRect and one fillText at (PAD, PAD), then one
\* restore
SavedDrawing(ctx) ==
    /\ Cardinality(CallsOf(ctx, "save")) = 1
    /\ Cardinality(CallsOf(ctx, "restore")) = 1
    /\ Cardinality(CallsOf(ctx, "fillRect")) = 1
    /\ Cardinality(CallsOf(ctx, "fillText")) = 1
    /\ \A s \in CallsOf(ctx, "save"), r \in CallsOf(ctx, "restore") :
           /\ s = 1
           /\ r = Len(ctx)
           /\ \A k \in CallsOf(ctx, "fillRect") \cup CallsOf(ctx, "fillText") :
                  s < k /\ k < r
    /\ \A k \in CallsOf(ctx, "fillText") : ctx[k].x = 10 /\ ctx[k].y = 10

\* a step that is a renderFPS call
RenderStep ==
    fpsCounter'.rendered.called =>
        /\ Measurement(fpsCounter') = Measurement(fpsCounter)
        /\ fpsCounter'.showFPS = fpsCounter.showFPS
        /\ ~fpsCounter.showFPS => fpsCounter'.rendered.ctx = <<>>
        /\ fpsCounter.showFPS => SavedDrawing(fpsCounter'.rendered.ctx)

\* C31: a renderFPS call makes no call on the drawing context while the
\* counter is hidden; while it is visible the call makes one save first and
\* one restore last, with one fillRect and one fillText between them, the
\* fillText at (10, 10); no renderFPS call changes what updateFPS measures.
C31_RenderGuarded == [][fpsCounter.loaded => RenderStep]_vars

C31_Witness ==
    /\ fpsCounter.loaded
    /\ fpsCounter.rendered.called
    /\ fpsCounter.showFPS
    /\ Len(fpsCounter.rendered.ctx) > 0
    /\ fpsCounter.displayedFPS = Number(20)
    /\ Len(fpsCounter.history) > 0

\* a text of the form 'FPS: ' and a decimal numeral
IntegerText(text) ==
    /\ Len(text) > 5
    /\ SubSeq(text, 1, 5) = <<"F", "P", "S", ":", " ">>
    /\ \A k \in 6..Len(text) : \E n \in 0..9 : text[k] = Digit(n)

\* C32: the text renderFPS draws is 'FPS: ' and a non-negative decimal
\* integer, whatever timestamps updateFPS was given, equal consecutive
\* timestamps included.
C32_IntegerText ==
    fpsCounter.loaded =>
        \A k \in CallsOf(fpsCounter.rendered.ctx, "fillText") :
            IntegerText(fpsCounter.rendered.ctx[k].text)

\* C33: after a resize event that all listeners have handled, the backing
\* buffer is the logical size times devicePixelRatio, the transform
\* resizeCanvas set is in effect, and getWidth() and getHeight() are the
\* viewport's innerWidth and innerHeight.
C33_CanvasStaysDpiAware ==
    (dom.loaded /\ dom.resized) =>
        /\ dom.width = dom.logicalWidth * dom.devicePixelRatio
        /\ dom.height = dom.logicalHeight * dom.devicePixelRatio
        /\ dom.transform = dom.devicePixelRatio
        /\ getWidth(dom) = dom.innerWidth
        /\ getHeight(dom) = dom.innerHeight

Potential(tier) == CASE tier = 1 -> 520 [] tier = 2 -> 250 [] tier = 3 -> 100

RECURSIVE PotentialOf(_)
PotentialOf(tiers) ==
    IF tiers = <<>> THEN 0 ELSE Potential(Head(tiers)) + PotentialOf(Tail(tiers))

\* the caller is between two ticks: the result of the last call is applied
\* and the next call has not begun
BetweenTicks == ticks.loaded /\ pc = "bullets" /\ bi = 0

RadiusOfTier(tier) == CASE tier = 1 -> 40 [] tier = 2 -> 20 [] tier = 3 -> 10

\* an asteroid object of a tier from 1 to 3 with the radius of its tier
WellTiered(a) ==
    /\ a # RangeError
    /\ a.tier \in {1, 2, 3}
    /\ a.radius = RadiusOfTier(a.tier)

RECURSIVE MostDestructions(_)
MostDestructions(tiers) ==
    IF tiers = <<>> THEN 0
    ELSE (CASE Head(tiers) = 1 -> 7 [] Head(tiers) = 2 -> 3 [] Head(tiers) = 3 -> 1)
             + MostDestructions(Tail(tiers))

\* the population is empty: no asteroid is live, none is waiting to be added
Empty == ticks.loaded /\ asteroids = <<>> /\ newAsteroids = <<>>

====
